---- MODULE Spec2Model ----
(***************************************************************************)
(* A model of bot.py: the message chunker (split_message), the URL matcher *)
(* (YOUTUBE_URL_PATTERN, is_youtube_url, extract_youtube_url), the access  *)
(* gate (is_chat_allowed) and the message handler (handle_message).        *)
(*                                                                         *)
(* A Python str is a sequence of one-character strings; the indices of the *)
(* Python helpers (rfind, slices) are 0-based as in the source.            *)
(***************************************************************************)
EXTENDS Integers, Sequences, FiniteSets, TLC

VARIABLES
    \* split_message: its arguments, its locals and its position
    text, max_length, remaining, chunks, cuts, split_pc,
    \* the URL matcher: the text, and the results of the two functions
    url_text, url_pc, found, extracted,
    \* handle_message: the module state, the event, the locals, the outputs
    ALLOWED_CHAT_IDS, chat_id, message_text, pc, allowed, video_url,
    summary, message_chunks, next_chunk, sent, summarizer_calls

split_vars == <<text, max_length, remaining, chunks, cuts, split_pc>>
url_vars == <<url_text, url_pc, found, extracted>>
bot_vars == <<ALLOWED_CHAT_IDS, chat_id, message_text, pc, allowed, video_url,
              summary, message_chunks, next_chunk, sent, summarizer_calls>>
vars == <<split_vars, url_vars, bot_vars>>

\* Python's None, where a str (a sequence of characters) may stand instead
None == <<"None">>

-----------------------------------------------------------------------------
(* Python str helpers *)

Min(a, b) == IF a <= b THEN a ELSE b

Max(a, b) == IF a >= b THEN a ELSE b

\* The characters str.rstrip() and str.lstrip() remove: every character for
\* which str.isspace is true. A character with no TLA+ escape is written by
\* its code point, "U+00A0" for the one character U+00A0.
Whitespace ==
    {"\t", "\n", "U+000B", "\f", "\r", "U+001C", "U+001D", "U+001E", "U+001F",
     " ", "U+0085", "U+00A0", "U+1680", "U+2000", "U+2001", "U+2002",
     "U+2003", "U+2004", "U+2005", "U+2006", "U+2007", "U+2008", "U+2009",
     "U+200A", "U+2028", "U+2029", "U+202F", "U+205F", "U+3000"}

\* s[:k] for k >= 0
Prefix(s, k) == SubSeq(s, 1, Min(k, Len(s)))

\* s[k:] for k >= 0
Suffix(s, k) == SubSeq(s, k + 1, Len(s))

\* str.find in place of str.rfind: the lowest index in [lo, hi) holding ch
rfind_First(s, ch, lo, hi) ==
    LET at == {i \in lo..(Min(hi, Len(s)) - 1) : s[i + 1] = ch}
    IN  IF at = {} THEN -1 ELSE CHOOSE i \in at : \A j \in at : i <= j

\* s.rfind(ch, lo, hi): the highest index in [lo, hi) holding ch, or -1
rfind(s, ch, lo, hi) ==
    LET at == {i \in lo..(Min(hi, Len(s)) - 1) : s[i + 1] = ch}
    IN  IF at = {} THEN -1 ELSE CHOOSE i \in at : \A j \in at : j <= i

\* s.rstrip()
RECURSIVE rstrip(_)
rstrip(s) ==
    IF s # <<>> /\ s[Len(s)] \in Whitespace
    THEN rstrip(SubSeq(s, 1, Len(s) - 1))
    ELSE s

\* s.lstrip()
RECURSIVE lstrip(_)
lstrip(s) ==
    IF s # <<>> /\ s[1] \in Whitespace THEN lstrip(Tail(s)) ELSE s

\* s.startswith(p, at) with a 0-based offset
StartsWithAt(s, p, at) ==
    /\ at + Len(p) <= Len(s)
    /\ \A i \in 1..Len(p) : s[at + i] = p[i]

-----------------------------------------------------------------------------
(* split_message *)

\* the forced split one character too far
SplitChoice_HardCutLate(rem, m) ==
    LET nl == rfind(rem, "\n", 0, m)
        sp == rfind(rem, " ", 0, m)
    IN  IF nl # -1 THEN [pos |-> nl, kind |-> "newline"]
        ELSE IF sp # -1 THEN [pos |-> sp, kind |-> "space"]
        ELSE [pos |-> m + 1, kind |-> "hard"]

\* lines 102-110: the position the loop body splits at, and the rule that
\* chose it
SplitChoice(rem, m) ==
    LET nl == rfind(rem, "\n", 0, m)
        sp == rfind(rem, " ", 0, m)
    IN  IF nl # -1 THEN [pos |-> nl, kind |-> "newline"]
        ELSE IF sp # -1 THEN [pos |-> sp, kind |-> "space"]
        ELSE [pos |-> m, kind |-> "hard"]

\* chunk = remaining[:split_pos].rstrip()
ChunkOf(rem, split_pos) == rstrip(Prefix(rem, split_pos))

\* the separator skipped by index instead of stripped
RestOf_SkipOne(rem, split_pos) == lstrip(Suffix(rem, split_pos + 1))

\* the remainder not stripped
RestOf_NoStrip(rem, split_pos) == Suffix(rem, split_pos)

\* remaining = remaining[split_pos:].lstrip()
RestOf(rem, split_pos) == lstrip(Suffix(rem, split_pos))

\* if chunk: chunks.append(chunk)
AppendIf(cs, chunk) == IF chunk # <<>> THEN Append(cs, chunk) ELSE cs

\* the early return
FitsWhole(t, m) == Len(t) <= m

\* the while loop and the lines after it
RECURSIVE SplitLoop(_, _, _)
SplitLoop(rem, cs, m) ==
    IF Len(rem) > m
    THEN LET split_pos == SplitChoice(rem, m).pos
         IN  SplitLoop(RestOf(rem, split_pos),
                       AppendIf(cs, ChunkOf(rem, split_pos)), m)
    ELSE AppendIf(cs, rem)

split_message(t, m) == IF FitsWhole(t, m) THEN <<t>> ELSE SplitLoop(t, <<>>, m)

\* the inputs explored: every text over Alphabet up to MaxLen characters
MaxLen == 7

MaxM == 4

Alphabet == {"a", " ", "\n", "U+00A0"}

TextsUpTo(n) == UNION {[1..k -> Alphabet] : k \in 0..n}

Texts == TextsUpTo(MaxLen)

\* the other components at rest
SplitIdle ==
    /\ text = <<>> /\ max_length = 1 /\ remaining = <<>>
    /\ chunks = <<>> /\ cuts = <<>> /\ split_pc = "idle"

UrlIdle ==
    /\ url_text = <<>> /\ url_pc = "idle" /\ found = FALSE /\ extracted = None

BotIdle ==
    /\ ALLOWED_CHAT_IDS = {} /\ chat_id = 0 /\ message_text = None
    /\ pc = "idle" /\ allowed = FALSE /\ video_url = None /\ summary = None
    /\ message_chunks = <<>> /\ next_chunk = 0 /\ sent = <<>>
    /\ summarizer_calls = <<>>

SplitInputs(ts) ==
    /\ text \in ts
    /\ max_length \in 1..MaxM
    /\ remaining = <<>>
    /\ chunks = <<>>
    /\ cuts = <<>>
    /\ split_pc = "call"
    /\ UrlIdle /\ BotIdle

SplitInit == SplitInputs(Texts)

\* lines 94-98: the early return, or the loop's initial state
SplitEnter ==
    /\ split_pc = "call"
    /\ IF FitsWhole(text, max_length)
       THEN /\ chunks' = <<text>>
            /\ remaining' = remaining
            /\ split_pc' = "return"
       ELSE /\ chunks' = <<>>
            /\ remaining' = text
            /\ split_pc' = "loop"
    /\ UNCHANGED <<text, max_length, cuts, url_vars, bot_vars>>

\* lines 100-116: one iteration of the while loop
SplitIterate ==
    /\ split_pc = "loop"
    /\ Len(remaining) > max_length
    /\ LET c == SplitChoice(remaining, max_length)
       IN  /\ chunks' = AppendIf(chunks, ChunkOf(remaining, c.pos))
           /\ remaining' = RestOf(remaining, c.pos)
           /\ cuts' = Append(cuts, c)
    /\ UNCHANGED <<text, max_length, split_pc, url_vars, bot_vars>>

\* lines 118-122: the loop's exit, the final chunk and the return
SplitFinish ==
    /\ split_pc = "loop"
    /\ Len(remaining) <= max_length
    /\ chunks' = AppendIf(chunks, remaining)
    /\ split_pc' = "return"
    /\ UNCHANGED <<text, max_length, remaining, cuts, url_vars, bot_vars>>

SplitNext == SplitEnter \/ SplitIterate \/ SplitFinish

SplitSpec == SplitInit /\ [][SplitNext]_vars

\* the interpreter runs a call to its end; the behaviours checked for
\* termination start from the texts one character shorter
SplitFairSpec ==
    SplitInputs(TextsUpTo(MaxLen - 1)) /\ [][SplitNext]_vars /\ WF_vars(SplitNext)

-----------------------------------------------------------------------------
(* Properties of split_message *)

CutKinds == {cuts[i].kind : i \in 1..Len(cuts)}

Returned == split_pc = "return"

AllWhitespace(s) == \A i \in 1..Len(s) : s[i] \in Whitespace

RECURSIVE Concat(_)
Concat(ss) == IF ss = <<>> THEN <<>> ELSE Head(ss) \o Concat(Tail(ss))

RECURSIVE WithoutWhitespace(_)
WithoutWhitespace(s) ==
    IF s = <<>> THEN <<>>
    ELSE IF Head(s) \in Whitespace THEN WithoutWhitespace(Tail(s))
    ELSE <<Head(s)>> \o WithoutWhitespace(Tail(s))

\* t is w0 c1 w1 c2 ... cn wn with cs = <<c1, ..., cn>> and every wi whitespace
RECURSIVE Covers(_, _)
Covers(t, cs) ==
    IF cs = <<>> THEN AllWhitespace(t)
    ELSE \E k \in 0..(Len(t) - Len(Head(cs))) :
            /\ AllWhitespace(Prefix(t, k))
            /\ StartsWithAt(t, Head(cs), k)
            /\ Covers(Suffix(t, k + Len(Head(cs))), Tail(cs))

\* " ".join(cs)
RECURSIVE JoinSpaces(_)
JoinSpaces(cs) ==
    IF cs = <<>> THEN <<>>
    ELSE IF Len(cs) = 1 THEN cs[1]
    ELSE cs[1] \o <<" ">> \o JoinSpaces(Tail(cs))

Rechunked == split_message(JoinSpaces(chunks), max_length)

NoNewlineInChunks ==
    \A i \in 1..Len(chunks) : \A j \in 1..Len(chunks[i]) : chunks[i][j] # "\n"

\* C1: every chunk appended, by a newline cut, a space cut, a hard cut or as
\* the final remainder, and the text returned whole, is at most max_length
\* characters long.
ChunksWithinLimit ==
    \A i \in 1..Len(chunks) : Len(chunks[i]) <= max_length

\* a call that made all three kinds of cut, kept a final remainder and
\* produced a chunk of exactly max_length characters has returned
ChunksWithinLimitWitness ==
    /\ Returned
    /\ CutKinds = {"newline", "space", "hard"}
    /\ remaining # <<>>
    /\ \E i \in 1..Len(chunks) : Len(chunks[i]) = max_length

\* C2: no element of the returned list is the empty string.
NoChunkEmpty ==
    Returned => \A i \in 1..Len(chunks) : chunks[i] # <<>>

\* C3: the returned chunks are, in order, non-overlapping substrings of the
\* text, every character outside them is whitespace, and so the chunks
\* concatenated equal the text once whitespace is removed from both.
ContentPreserved ==
    Returned =>
        /\ Covers(text, chunks)
        /\ WithoutWhitespace(Concat(chunks)) = WithoutWhitespace(text)

\* a call that cut by force, dropped whitespace and returned several chunks
ContentPreservedWitness ==
    /\ Returned
    /\ "hard" \in CutKinds
    /\ Len(chunks) >= 3
    /\ Len(Concat(chunks)) < Len(text)

\* C4: every iteration of the loop leaves remaining strictly shorter, and
\* every call returns.
LoopShrinksAndReturns ==
    /\ [][split_pc = "loop" /\ Len(remaining) > max_length
            => Len(remaining') < Len(remaining)]_vars
    /\ <>Returned

\* a call that split at position 0 (the window's only separator was its
\* first character) has returned
LoopShrinksWitness ==
    /\ Returned
    /\ \E i \in 1..Len(cuts) : cuts[i].pos = 0

\* C5, as claimed: joining the chunks with single spaces and chunking again
\* gives at most as many chunks.
RechunkNoGrowth ==
    Returned => Len(Rechunked) <= Len(chunks)

\* C5, amended: when no chunk contains a newline, chunking the chunks joined
\* with single spaces gives at most max(1, number of chunks) chunks.
RechunkNoGrowthWithoutNewlines ==
    Returned /\ NoNewlineInChunks => Len(Rechunked) <= Max(1, Len(chunks))

\* a call whose several chunks, none with a newline, chunk again into fewer
RechunkWitness ==
    /\ Returned
    /\ NoNewlineInChunks
    /\ Len(chunks) >= 3
    /\ Len(Rechunked) < Len(chunks)

-----------------------------------------------------------------------------
(* YOUTUBE_URL_PATTERN, is_youtube_url, extract_youtube_url *)

HTTP_SCHEME == <<"h", "t", "t", "p", ":", "/", "/">>

HTTPS_SCHEME == <<"h", "t", "t", "p", "s", ":", "/", "/">>

WWW == <<"w", "w", "w", ".">>

LONG_HOST == <<"y", "o", "u", "t", "u", "b", "e", ".", "c", "o", "m", "/", "w", "a", "t", "c", "h", "?", "v", "=">>

SHORT_HOST == <<"y", "o", "u", "t", "u", ".", "b", "e", "/">>

\* [a-zA-Z0-9_-]
IdChars ==
    {"a", "b", "c", "d", "e", "f", "g", "h", "i", "j", "k", "l", "m",
     "n", "o", "p", "q", "r", "s", "t", "u", "v", "w", "x", "y", "z",
     "A", "B", "C", "D", "E", "F", "G", "H", "I", "J", "K", "L", "M",
     "N", "O", "P", "Q", "R", "S", "T", "U", "V", "W", "X", "Y", "Z",
     "0", "1", "2", "3", "4", "5", "6", "7", "8", "9", "_", "-"}

\* {11}
ID_LENGTH == 11

\* The pattern piece by piece: each operator gives the offsets at which the
\* piece, tried at offset i of s, can end (an optional piece may end at i).
\* (?:https?://)?
AfterScheme(s, i) ==
    {i} \cup {i + Len(p) : p \in {q \in {HTTP_SCHEME, HTTPS_SCHEME} :
                                    StartsWithAt(s, q, i)}}

\* (?:www\.)?
AfterWww(s, i) == {i} \cup (IF StartsWithAt(s, WWW, i) THEN {i + Len(WWW)} ELSE {})

\* (?:youtube\.com/watch\?v=|youtu\.be/)
AfterHost(s, i) ==
    {i + Len(h) : h \in {g \in {LONG_HOST, SHORT_HOST} : StartsWithAt(s, g, i)}}

\* ([a-zA-Z0-9_-]{11})
AfterId(s, i) ==
    IF /\ i + ID_LENGTH <= Len(s)
       /\ \A k \in 1..ID_LENGTH : s[i + k] \in IdChars
    THEN {i + ID_LENGTH}
    ELSE {}

\* the offsets at which a match of the whole pattern starting at i can end
MatchEnds(s, i) ==
    UNION {UNION {UNION {AfterId(s, c) : c \in AfterHost(s, b)}
                    : b \in AfterWww(s, a)}
             : a \in AfterScheme(s, i)}

\* re.Match is [start, end); no match is NoMatch
NoMatch == [start |-> -1, end |-> -1]

\* YOUTUBE_URL_PATTERN.search(s): the leftmost start with a match; the
\* optional pieces are greedy, so the engine's first match there is the one
\* that took them
PatternSearch(s) ==
    LET starts == {i \in 0..Len(s) : MatchEnds(s, i) # {}}
    IN  IF starts = {} THEN NoMatch
        ELSE LET i == CHOOSE x \in starts : \A y \in starts : x <= y
                 e == CHOOSE x \in MatchEnds(s, i) :
                        \A y \in MatchEnds(s, i) : y <= x
             IN  [start |-> i, end |-> e]

\* match.group(0)
Group0(s, match) == SubSeq(s, match.start + 1, match.end)

\* the truth value of the pattern object instead of that of a search
is_youtube_url_Always(s) == TRUE

is_youtube_url(s) == PatternSearch(s) # NoMatch

\* the scheme never added
extract_youtube_url_AsMatched(s) ==
    LET match == PatternSearch(s)
    IN  IF match # NoMatch THEN Group0(s, match) ELSE None

extract_youtube_url(s) ==
    LET match == PatternSearch(s)
    IN  IF match # NoMatch
        THEN LET full_url == Group0(s, match)
             IN  IF ~StartsWithAt(full_url, <<"h", "t", "t", "p">>, 0)
                 THEN HTTPS_SCHEME \o full_url
                 ELSE full_url
        ELSE None

\* The inputs explored: prefix, scheme, www, host, an identifier run of 0 to
\* MaxIdRun characters, a suffix and an optional second link.
MaxIdRun == 12

IdSample == <<"d", "Q", "w", "4", "w", "9", "W", "g", "X", "c", "Q", "_", "-", "A", "z", "0", "9">>

IdSample2 == <<"Z", "z", "0", "-", "_", "9", "y", "Y", "1", "x", "X">>

UrlBefore == {<<>>, <<"s", "e", "e", " ">>}

UrlSchemes == {<<>>, HTTP_SCHEME, HTTPS_SCHEME, <<"f", "t", "p", ":", "/", "/">>}

UrlWwws == {<<>>, WWW, <<"m", ".">>}

UrlHosts == {LONG_HOST, SHORT_HOST, <<"y", "o", "u", "t", "u", "b", "e", ".", "c", "o", "m", "/", "e", "m", "b", "e", "d", "/">>}

UrlAfter == {<<>>, <<"&", "t", "=", "4", "2">>, <<" ", "o", "k">>}

UrlSecond ==
    {<<>>,
     <<" ">> \o SHORT_HOST \o IdSample2,
     <<" ">> \o HTTP_SCHEME \o WWW \o LONG_HOST \o IdSample2}

UrlTexts ==
    {b \o sc \o w \o h \o Prefix(IdSample, n) \o a \o l :
        b \in UrlBefore, sc \in UrlSchemes, w \in UrlWwws, h \in UrlHosts,
        n \in 0..MaxIdRun, a \in UrlAfter, l \in UrlSecond}

UrlInit ==
    /\ url_text \in UrlTexts
    /\ url_pc = "input"
    /\ found = FALSE
    /\ extracted = None
    /\ SplitIdle /\ BotIdle

\* a call of is_youtube_url(url_text)
CallIsYoutubeUrl ==
    /\ url_pc = "input"
    /\ found' = is_youtube_url(url_text)
    /\ url_pc' = "checked"
    /\ UNCHANGED <<url_text, extracted, split_vars, bot_vars>>

\* a call of extract_youtube_url(url_text)
CallExtractYoutubeUrl ==
    /\ url_pc = "checked"
    /\ extracted' = extract_youtube_url(url_text)
    /\ url_pc' = "extracted"
    /\ UNCHANGED <<url_text, found, split_vars, bot_vars>>

UrlNext == CallIsYoutubeUrl \/ CallExtractYoutubeUrl

UrlSpec == UrlInit /\ [][UrlNext]_vars

-----------------------------------------------------------------------------
(* Properties of the URL matcher *)

\* the offsets just after an occurrence of one of the two host forms
CandidateIds(s) == UNION {AfterHost(s, i) : i \in 0..Len(s)}

\* the length of the run of identifier characters at offset i
RECURSIVE IdRun(_, _)
IdRun(s, i) ==
    IF i < Len(s) /\ s[i + 1] \in IdChars THEN 1 + IdRun(s, i + 1) ELSE 0

\* the strings that may stand before the identifier in the pattern's language
LinkHeads ==
    {sc \o w \o h : sc \in {<<>>, HTTP_SCHEME, HTTPS_SCHEME},
                    w \in {<<>>, WWW}, h \in {LONG_HOST, SHORT_HOST}}

\* the substrings of s in the pattern's language (a head, then 11 identifier
\* characters), as [start, end) pairs
Matches(s) ==
    {<<p[1], p[1] + Len(p[2]) + 11>> :
        p \in {q \in (0..Len(s)) \X LinkHeads :
                /\ StartsWithAt(s, q[2], q[1])
                /\ q[1] + Len(q[2]) + 11 <= Len(s)
                /\ \A k \in 1..11 : s[q[1] + Len(q[2]) + k] \in IdChars}}

HasScheme(u) ==
    StartsWithAt(u, HTTP_SCHEME, 0) \/ StartsWithAt(u, HTTPS_SCHEME, 0)

UrlDone == url_pc = "extracted"

\* C6: a text whose only candidate link has an identifier run shorter or
\* longer than 11 characters does not match: is_youtube_url is False and
\* extract_youtube_url is None.
OnlyElevenCharIdsMatch ==
    UrlDone /\ Cardinality(CandidateIds(url_text)) = 1 =>
        \A c \in CandidateIds(url_text) :
            IdRun(url_text, c) # 11 => found = FALSE /\ extracted = None

\* C7: with a match in the text, extract_youtube_url returns the leftmost
\* matching substring, as it stands when it begins with http:// or https://
\* and with one https:// put before it otherwise; it returns None, and
\* never the empty string, exactly when is_youtube_url is False.
ExtractsLeftmostWithScheme ==
    UrlDone =>
        LET ms == Matches(url_text)
        IN  /\ extracted # <<>>
            /\ (extracted = None) <=> (found = FALSE)
            /\ (found = FALSE) <=> (ms = {})
            /\ ms # {} =>
                 \E m \in ms :
                    LET u == SubSeq(url_text, m[1] + 1, m[2])
                    IN  /\ \A o \in ms : m[1] <= o[1]
                        /\ extracted =
                             IF HasScheme(u) THEN u ELSE HTTPS_SCHEME \o u

\* both functions have run on a text with two links, the leftmost of them
\* after the start of the text and without a scheme
ExtractsLeftmostWitness ==
    /\ UrlDone
    /\ found
    /\ LET ms == Matches(url_text)
       IN  \E m, o \in ms :
              /\ 0 < m[1] /\ m[1] < o[1]
              /\ \A x \in ms : m[1] <= x[1]
              /\ ~HasScheme(SubSeq(url_text, m[1] + 1, m[2]))
              /\ extracted = HTTPS_SCHEME \o SubSeq(url_text, m[1] + 1, m[2])

-----------------------------------------------------------------------------
(* is_chat_allowed, handle_message *)

\* `not x` for a value that is a str or None
Falsy_NoneOnly(x) == x = None

Falsy(x) == x = None \/ x = <<>>

\* membership alone, without the rule for an empty ALLOWED_CHAT_IDS
is_chat_allowed_MembersOnly(id) == id \in ALLOWED_CHAT_IDS

is_chat_allowed(id) ==
    IF ALLOWED_CHAT_IDS = {} THEN TRUE ELSE id \in ALLOWED_CHAT_IDS

\* The fixed texts, each a one-element sequence holding the literal.
PLACEHOLDER_MESSAGE ==
    <<"Sorry, this bot is not available in this chat. Ask @kolsha for access.">>

NOT_A_LINK ==
    <<"Please send a valid YouTube video link (youtube.com or youtu.be format).">>

NOT_EXTRACTED ==
    <<"Could not extract YouTube URL from your message. Please try again.">>

PROCESSING == <<"Processing your YouTube video...">>

NO_SUMMARY ==
    <<"Sorry, I could not generate a summary for this video. Please try again later.">>

FAILED ==
    <<"An error occurred while processing the video. Please check if the URL is valid and try again later.">>

\* the characters before {summary} in full_message; the first stands for the
\* one code point U+1F4F9
SUMMARY_HEADER ==
    <<"U+1F4F9", " ", "*", "V", "i", "d", "e", "o", " ", "S", "u", "m",
      "m", "a", "r", "y", ":", "*", "\n", "\n">>

\* max_length=4000
MAX_MESSAGE_LENGTH == 4000

\* calls of the transport
Reply(body, mode) == [op |-> "reply_text", body |-> body, parse_mode |-> mode]

Edit(body, mode) == [op |-> "edit_text", body |-> body, parse_mode |-> mode]

\* The events and summaries explored.
ChatIds == {7, 42, 287129494}

MessageTexts ==
    {None, <<>>,
     <<"n", "o", " ", "l", "i", "n", "k", " ", "h", "e", "r", "e">>,
     HTTPS_SCHEME \o SHORT_HOST \o IdSample2,
     <<"s", "e", "e", " ">> \o WWW \o LONG_HOST \o IdSample2 \o <<" ", "o", "k">>,
     SHORT_HOST \o Prefix(IdSample2, 10)}

\* n characters, the characters of block over and over
Repeated(block, n) == [i \in 1..n |-> block[((i - 1) % Len(block)) + 1]]

Summaries ==
    {None, <<>>,
     <<"o", "k">>,
     Repeated(<<"w", "o", "r", "d", " ">>, MAX_MESSAGE_LENGTH + 5),
     Repeated(<<"l", "i", "n", "e", " ", "o", "n", "e", "\n">>, MAX_MESSAGE_LENGTH),
     Repeated(<<"x">>, 2 * MAX_MESSAGE_LENGTH),
     Repeated(<<"U+00A0", "n", "b", "U+2028">>, MAX_MESSAGE_LENGTH + 6)}

Init ==
    /\ ALLOWED_CHAT_IDS \in SUBSET ChatIds
    /\ chat_id \in ChatIds
    /\ message_text \in MessageTexts
    /\ pc = "start"
    /\ allowed = FALSE
    /\ video_url = None
    /\ summary = None
    /\ message_chunks = <<>>
    /\ next_chunk = 0
    /\ sent = <<>>
    /\ summarizer_calls = <<>>
    /\ SplitIdle /\ UrlIdle

\* lines 139-167: from the event to the first reply. The reply may raise,
\* which ends the handler.
HandleEntry ==
    /\ pc = "start"
    /\ allowed' = is_chat_allowed(chat_id)
    /\ \E delivered \in BOOLEAN :
        IF ~is_chat_allowed(chat_id)
        THEN /\ sent' = Append(sent, Reply(PLACEHOLDER_MESSAGE, None))
             /\ pc' = "done"
             /\ video_url' = video_url
        ELSE IF Falsy(message_text)
        THEN /\ sent' = sent
             /\ pc' = "done"
             /\ video_url' = video_url
        ELSE IF ~is_youtube_url(message_text)
        THEN /\ sent' = Append(sent, Reply(NOT_A_LINK, None))
             /\ pc' = "done"
             /\ video_url' = video_url
        ELSE /\ video_url' = extract_youtube_url(message_text)
             /\ IF Falsy(video_url')
                THEN /\ sent' = Append(sent, Reply(NOT_EXTRACTED, None))
                     /\ pc' = "done"
                ELSE /\ sent' = Append(sent, Reply(PROCESSING, None))
                     /\ pc' = IF delivered THEN "summarize" ELSE "done"
    /\ UNCHANGED <<ALLOWED_CHAT_IDS, chat_id, message_text, summary,
                   message_chunks, next_chunk, summarizer_calls,
                   split_vars, url_vars>>

\* line 171 and lines 70-89: the summarizer returns a text, or None when it
\* has none or its call raised
Summarize ==
    /\ pc = "summarize"
    /\ summarizer_calls' = Append(summarizer_calls, video_url)
    /\ summary' \in Summaries
    /\ pc' = "deliver"
    /\ UNCHANGED <<ALLOWED_CHAT_IDS, chat_id, message_text, allowed, video_url,
                   message_chunks, next_chunk, sent, split_vars, url_vars>>

\* lines 173-191: the summary is split and its first chunk replaces the
\* processing message, or the apology does; an edit that raises goes to the
\* except clause
Deliver ==
    /\ pc = "deliver"
    /\ \E delivered \in BOOLEAN :
        IF ~Falsy(summary)
        THEN /\ message_chunks' =
                    split_message(SUMMARY_HEADER \o summary, MAX_MESSAGE_LENGTH)
             /\ IF message_chunks' # <<>>
                THEN /\ sent' = Append(sent, Edit(message_chunks'[1], "Markdown"))
                     /\ pc' = IF delivered THEN "chunks" ELSE "except"
                     /\ next_chunk' = 2
                ELSE /\ sent' = sent
                     /\ pc' = "done"
                     /\ next_chunk' = next_chunk
        ELSE /\ sent' = Append(sent, Edit(NO_SUMMARY, None))
             /\ pc' = IF delivered THEN "done" ELSE "except"
             /\ UNCHANGED <<message_chunks, next_chunk>>
    /\ UNCHANGED <<ALLOWED_CHAT_IDS, chat_id, message_text, allowed, video_url,
                   summary, summarizer_calls, split_vars, url_vars>>

\* lines 186-187: one more chunk as a message of its own
SendChunk ==
    /\ pc = "chunks"
    /\ next_chunk <= Len(message_chunks)
    /\ sent' = Append(sent, Reply(message_chunks[next_chunk], "Markdown"))
    /\ \E delivered \in BOOLEAN :
        /\ pc' = IF delivered THEN "chunks" ELSE "except"
        /\ next_chunk' = IF delivered THEN next_chunk + 1 ELSE next_chunk
    /\ UNCHANGED <<ALLOWED_CHAT_IDS, chat_id, message_text, allowed, video_url,
                   summary, message_chunks, summarizer_calls,
                   split_vars, url_vars>>

\* the for loop's end
ChunksSent ==
    /\ pc = "chunks"
    /\ next_chunk > Len(message_chunks)
    /\ pc' = "done"
    /\ UNCHANGED <<ALLOWED_CHAT_IDS, chat_id, message_text, allowed, video_url,
                   summary, message_chunks, next_chunk, sent, summarizer_calls,
                   split_vars, url_vars>>

\* lines 192-196: the except clause
ReportFailure ==
    /\ pc = "except"
    /\ sent' = Append(sent, Edit(FAILED, None))
    /\ pc' = "done"
    /\ UNCHANGED <<ALLOWED_CHAT_IDS, chat_id, message_text, allowed, video_url,
                   summary, message_chunks, next_chunk, summarizer_calls,
                   split_vars, url_vars>>

Next ==
    \/ HandleEntry
    \/ Summarize
    \/ Deliver
    \/ SendChunk
    \/ ChunksSent
    \/ ReportFailure

Spec == Init /\ [][Next]_vars

-----------------------------------------------------------------------------
(* Properties of the access gate and the handler *)

\* the chat of the event is permitted: the allow-set is empty or holds it
Permitted == ALLOWED_CHAT_IDS = {} \/ chat_id \in ALLOWED_CHAT_IDS

Handled == pc = "done"

\* the event's text is absent or empty
NoText == message_text = None \/ message_text = <<>>

Bodies == {sent[i].body : i \in 1..Len(sent)}

\* C8: is_chat_allowed returns True for every chat when ALLOWED_CHAT_IDS is
\* empty, and otherwise exactly for its members; no step changes
\* ALLOWED_CHAT_IDS.
AccessGateRule ==
    [][/\ ALLOWED_CHAT_IDS' = ALLOWED_CHAT_IDS
       /\ pc = "start" =>
            allowed' = (ALLOWED_CHAT_IDS = {} \/ chat_id \in ALLOWED_CHAT_IDS)]_vars

\* the gate has let a chat through an empty allow-set
AccessGateWitness ==
    /\ pc # "start"
    /\ ALLOWED_CHAT_IDS = {}
    /\ allowed

\* C9, as claimed: an event without text, from any chat, makes the handler
\* send nothing, edit nothing and call no summarizer.
NoTextIsSilent ==
    Handled /\ NoText =>
        sent = <<>> /\ summarizer_calls = <<>>

\* C9, amended: an event without text from a permitted chat makes the
\* handler send nothing, edit nothing and call no summarizer; from a chat
\* that is not permitted it gets the placeholder reply and nothing else.
NoTextIsSilentWhenPermitted ==
    Handled /\ NoText =>
        /\ summarizer_calls = <<>>
        /\ Permitted => sent = <<>>
        /\ ~Permitted => sent = <<Reply(PLACEHOLDER_MESSAGE, None)>>

\* a permitted chat, named in a non-empty allow-set, sent an event with the
\* empty text and the handler has finished
NoTextWitness ==
    /\ Handled
    /\ message_text = <<>>
    /\ chat_id \in ALLOWED_CHAT_IDS
    /\ sent = <<>>

\* C10: the summarizer is called at most once, and only for a permitted chat
\* whose text held a link; a chat not permitted gets the placeholder reply
\* and nothing else; a permitted chat whose text holds no link gets the one
\* rejection reply and nothing else, so no processing message and no
\* summarizer call in either case.
SummarizerOnlyAfterGateAndLink ==
    LET linked == ~NoText /\ Matches(message_text) # {}
    IN  /\ Len(summarizer_calls) <= 1
        /\ summarizer_calls # <<>> =>
              Permitted /\ linked /\ PROCESSING \in Bodies
        /\ ~Permitted /\ Handled =>
              sent = <<Reply(PLACEHOLDER_MESSAGE, None)>>
        /\ Permitted /\ ~NoText /\ ~linked /\ Handled =>
              sent = <<Reply(NOT_A_LINK, None)>>
        /\ ~Permitted \/ ~linked =>
              PROCESSING \notin Bodies /\ summarizer_calls = <<>>

\* a run that called the summarizer and delivered a summary in three parts
SummarizerWitness ==
    /\ Handled
    /\ Len(summarizer_calls) = 1
    /\ Len(message_chunks) = 3
    /\ Len(sent) = 4

====
